---- MODULE Spec2Model ----
(***************************************************************************)
(* A3TTask (tasks/tts/a3t.py): the masked-region training / inference      *)
(* controller of the speech-editing toolkit.                               *)
(*                                                                         *)
(* Tensors are modelled as records [data, requires_grad]; data is one      *)
(* batch row of a (time x channel) spectrogram over small integers (all    *)
(* operations of the controller on spectrograms are elementwise, so every  *)
(* row behaves alike).  Python dicts are functions whose DOMAIN is the set *)
(* of keys present.  Python strings are sequences of one-character         *)
(* strings.  An uncaught exception ends the run: ret.err records it and no *)
(* further step is taken.                                                  *)
(***************************************************************************)
EXTENDS Integers, Sequences, FiniteSets, TLC

VARIABLES hparams, scheduler, global_step, pc, sample, model_out, ret,
          saving_result_pool, attn_files, test_outputs

vars == <<hparams, scheduler, global_step, pc, sample, model_out, ret,
          saving_result_pool, attn_files, test_outputs>>

(***************************************************************************)
(* Bounds of the model.                                                    *)
(***************************************************************************)
MelLen == 2
NumCh == 2
MaxVal == 1
MaxBatch == 2
MaxAccum == 4
MaxGlobalStep == 8
MaxTestSteps == 2
ValidInferInterval == 2

Frames == 1..MelLen
Chans == 1..NumCh
Vals == 0..MaxVal

(***************************************************************************)
(* Spectrograms, masks and tensors.                                        *)
(***************************************************************************)
Frame(b) == [c \in Chans |-> (b + c - 1) % (MaxVal + 1)]
MelData == [Frames -> {Frame(b) : b \in Vals}]
ConstMel(b) == [t \in Frames |-> Frame(b)]
Masks == [Frames -> {0, 1}]
PrefixMask(j) == [t \in Frames |-> IF t <= j THEN 1 ELSE 0]

Tensor(d, g) == [data |-> d, requires_grad |-> g]

\* x * time_mel_masks, the mask broadcast over channels ([:, :, None])
Mul(x, m) ==
    [data |-> [t \in Frames |-> [c \in Chans |-> x.data[t][c] * m[t]]],
     requires_grad |-> x.requires_grad]

\* a + b, elementwise
Add(a, b) ==
    [data |-> [t \in Frames |-> [c \in Chans |-> a.data[t][c] + b.data[t][c]]],
     requires_grad |-> a.requires_grad \/ b.requires_grad]

\* 1 - time_mel_masks
OneMinus(m) == [t \in Frames |-> 1 - m[t]]

\* v.detach()
Detach(x) == [data |-> x.data, requires_grad |-> FALSE]

(***************************************************************************)
(* Batches and the external model's outputs.                               *)
(***************************************************************************)
OptionalKeys == {"pitch", "spk_embed", "spk_ids"}

\* sample['text'][0] is a string or None
NoText == [is_none |-> TRUE, chars |-> <<>>]
Text(s) == [is_none |-> FALSE, chars |-> s]

\* a collated batch: the required fields, and the optional ones in opt
Batch(b, g, m, opt, name, text) ==
    [txt_tokens |-> [rows |-> b],
     mels |-> Tensor(g, FALSE),
     time_mel_masks |-> m,
     mel2ph |-> [t \in Frames |-> 1],
     item_name |-> name,
     text |-> text] @@ [k \in opt |-> k]

\* the optional outputs of the model: an attention map, durations
Extras(x) == [k \in x |-> Tensor(<<k>>, FALSE)]

\* self.model(..., infer=False): decoder- and postnet-stage estimates
TrainOut(d, gd, p, gp, x) ==
    [mel_out_decoder |-> Tensor(d, gd), mel_out_postnet |-> Tensor(p, gp)] @@ Extras(x)

\* self.model(..., infer=True): one final estimate, no gradient
InferOut(p, x) == [mel_out |-> Tensor(p, FALSE)] @@ Extras(x)

(***************************************************************************)
(* run_model.                                                              *)
(***************************************************************************)
\* faulty variant: the prediction enters the loss unmasked
MelLossArgs_unmasked(pred, mels, m) == <<pred, Mul(mels, m)>>

\* the two arguments of add_mel_loss: prediction and target, both masked
MelLossArgs(pred, mels, m) == <<Mul(pred, m), Mul(mels, m)>>

\* FastSpeechTask's mel-reconstruction loss: sum of absolute differences
Abs(i) == IF i < 0 THEN -i ELSE i
RECURSIVE SumTo(_, _)
SumTo(f, n) == IF n = 0 THEN 0 ELSE f[n] + SumTo(f, n - 1)
L1(a, b) ==
    SumTo([t \in Frames |->
             SumTo([c \in Chans |-> Abs(a.data[t][c] - b.data[t][c])], NumCh)],
          MelLen)

\* FastSpeechTask.add_mel_loss(mel_out, target, losses, postfix)
add_mel_loss(mel_out, target, losses, postfix) ==
    (("mel" \o postfix) :>
        [is_tensor |-> TRUE,
         requires_grad |-> mel_out.requires_grad \/ target.requires_grad,
         val |-> L1(mel_out, target)]) @@ losses

\* faulty variant: the two masks exchanged
Composite_swapped(p, g, m) == Add(Mul(p, OneMinus(m)), Mul(g, m))

\* predicted * mask + ground truth * (1 - mask)
Composite(p, g, m) == Add(Mul(p, m), Mul(g, OneMinus(m)))

\* run_model(sample, infer=False) on the model's output: (losses, output)
run_model_train(s, output) ==
    LET m == s.time_mel_masks
        dec == MelLossArgs(output.mel_out_decoder, s.mels, m)
        post == MelLossArgs(output.mel_out_postnet, s.mels, m)
        l1 == add_mel_loss(dec[1], dec[2], <<>>, "_decoder")
        l2 == add_mel_loss(post[1], post[2], l1, "_postnet")
    IN [losses |-> l2,
        output |-> ("mel_out" :> Composite(output.mel_out_postnet, s.mels, m)) @@ output]

\* run_model(sample, infer=True) on the model's output: output
run_model_infer(s, output) ==
    ("mel_out" :> Composite(output.mel_out, s.mels, s.time_mel_masks)) @@ output

(***************************************************************************)
(* State shared by every specification.                                    *)
(***************************************************************************)
HParams(k, lvl, ivl, gt, attn) ==
    [accumulate_grad_batches |-> k, dur_level |-> lvl, valid_infer_interval |-> ivl,
     save_gt |-> gt, save_attn |-> attn]

NoSample == [txt_tokens |-> [rows |-> 0]]
NoOut == <<>>
\* ret: the outcome of the last step: its name, the exception it raised
\* ("none" when it returned), the calls it made to external collaborators
NoRet == [op |-> "none", err |-> "none", calls |-> <<>>]

InitCommon ==
    /\ global_step = 0
    /\ model_out = NoOut
    /\ ret = NoRet
    /\ saving_result_pool = <<>>
    /\ attn_files = {}
    /\ test_outputs = <<>>

(***************************************************************************)
(* SpecMel: run_model applied once to every batch and model output.        *)
(***************************************************************************)
InitMel ==
    /\ InitCommon
    /\ hparams = HParams(1, "ph", 0, FALSE, FALSE)
    /\ scheduler = [attached |-> FALSE, last_step |-> 0, calls |-> 0]
    /\ pc = "run_model"
    /\ \E g \in MelData, m \in Masks :
          sample = Batch(1, g, m, {}, <<"a">>, NoText)

RunModelTrain ==
    /\ pc = "run_model"
    /\ \E b \in Vals, p \in MelData :
          LET raw == TrainOut(ConstMel(b), TRUE, p, TRUE, {})
              r == run_model_train(sample, raw)
          IN /\ model_out' = r.output
             /\ ret' = [op |-> "run_model", err |-> "none", calls |-> <<"model">>,
                        infer |-> FALSE,
                        raw |-> raw, losses |-> r.losses]
    /\ pc' = "done"
    /\ UNCHANGED <<hparams, scheduler, global_step, sample, saving_result_pool,
                   attn_files, test_outputs>>

RunModelInfer ==
    /\ pc = "run_model"
    /\ \E p \in MelData :
          LET raw == InferOut(p, {})
          IN /\ model_out' = run_model_infer(sample, raw)
             /\ ret' = [op |-> "run_model", err |-> "none", calls |-> <<"model">>,
                        infer |-> TRUE,
                        raw |-> raw, losses |-> <<>>]
    /\ pc' = "done"
    /\ UNCHANGED <<hparams, scheduler, global_step, sample, saving_result_pool,
                   attn_files, test_outputs>>

NextMel == RunModelTrain \/ RunModelInfer

SpecMel == InitMel /\ [][NextMel]_vars

(***************************************************************************)
(* Properties of run_model (SpecMel).                                      *)
(***************************************************************************)
AllZero(m) == \A t \in Frames : m[t] = 0
AllOne(m) == \A t \in Frames : m[t] = 1
\* the estimate run_model composites: mel_out (infer) or mel_out_postnet
Predicted == IF ret.infer THEN ret.raw.mel_out ELSE ret.raw.mel_out_postnet
\* a and b agree on every frame the mask selects
AgreeOnMasked(a, b, m) == \A t \in Frames : m[t] = 1 => a[t] = b[t]

\* C1: the 'mel_out' run_model returns equals the ground truth at every frame
\* where the mask is 0 and the model's prediction at every frame where it is
\* 1, with infer=True (prediction = mel_out) and with infer=False (prediction
\* = mel_out_postnet); an all-zero mask yields the ground truth, an all-one
\* mask the prediction.
C1_MelOutFollowsMask ==
    ret.op = "run_model" =>
        LET m == sample.time_mel_masks
            g == sample.mels.data
            p == Predicted.data
            o == model_out.mel_out.data
        IN /\ \A t \in Frames : \A c \in Chans :
                 o[t][c] = IF m[t] = 1 THEN p[t][c] ELSE g[t][c]
           /\ AllZero(m) => o = g
           /\ AllOne(m) => o = p

\* a run in training mode with a mask selecting some frames only, where the
\* prediction differs from the ground truth on every frame
C1_Witness ==
    /\ ret.op = "run_model"
    /\ ~ret.infer
    /\ ~AllZero(sample.time_mel_masks) /\ ~AllOne(sample.time_mel_masks)
    /\ \A t \in Frames : Predicted.data[t] # sample.mels.data[t]
    /\ model_out.mel_out.data # sample.mels.data
    /\ model_out.mel_out.data # Predicted.data

\* C2: with infer=False both mel-reconstruction losses are computed on masked
\* arguments: for an all-zero mask both are zero whatever the model predicts,
\* and changing either prediction on frames where the mask is 0 changes
\* neither loss.
C2_LossRestrictedToMask ==
    (ret.op = "run_model" /\ ~ret.infer) =>
        LET m == sample.time_mel_masks
            d == ret.raw.mel_out_decoder.data
            p == ret.raw.mel_out_postnet.data
        IN /\ DOMAIN ret.losses = {"mel_decoder", "mel_postnet"}
           /\ AllZero(m) => /\ ret.losses["mel_decoder"].val = 0
                            /\ ret.losses["mel_postnet"].val = 0
           /\ \A x \in MelData :
                 /\ AgreeOnMasked(x, d, m) =>
                       run_model_train(sample, TrainOut(x, TRUE, p, TRUE, {})).losses
                          = ret.losses
                 /\ AgreeOnMasked(x, p, m) =>
                       run_model_train(sample, TrainOut(d, TRUE, x, TRUE, {})).losses
                          = ret.losses

\* a training-mode run with an all-zero mask whose two predictions both differ
\* from the ground truth
C2_Witness ==
    /\ ret.op = "run_model"
    /\ ~ret.infer
    /\ AllZero(sample.time_mel_masks)
    /\ ret.raw.mel_out_decoder.data # sample.mels.data
    /\ ret.raw.mel_out_postnet.data # sample.mels.data
    /\ ret.losses["mel_decoder"].val = 0

(***************************************************************************)
(* _training_step, on_after_optimization and the validation hooks.         *)
(***************************************************************************)
\* loss_weights = {}
loss_weights == <<>>
\* loss_weights.get(k, 1)
Weight(k) == IF k \in DOMAIN loss_weights THEN loss_weights[k] ELSE 1

RECURSIVE SumOver(_, _)
SumOver(lo, ks) ==
    IF ks = {} THEN 0
    ELSE LET k == CHOOSE x \in ks : TRUE
         IN Weight(k) * lo[k].val + SumOver(lo, ks \ {k})

\* faulty variant: every tensor is summed, with or without gradient tracking
TotalLoss_nofilter(lo) ==
    LET ks == {k \in DOMAIN lo : lo[k].is_tensor}
    IN [is_tensor |-> ks # {}, requires_grad |-> ks # {}, val |-> SumOver(lo, ks)]

\* sum([loss_weights.get(k, 1) * v for k, v in loss_output.items()
\*      if isinstance(v, torch.Tensor) and v.requires_grad]); sum([]) is int 0
TotalLoss(lo) ==
    LET ks == {k \in DOMAIN lo : lo[k].is_tensor /\ lo[k].requires_grad}
    IN [is_tensor |-> ks # {}, requires_grad |-> ks # {}, val |-> SumOver(lo, ks)]

\* {k: v.detach() for k, v in model_out.items() if isinstance(v, torch.Tensor)}
DetachAll(o) == [k \in DOMAIN o |-> Detach(o[k])]

\* a plain Python number stored in the loss record
Scalar(n) == [is_tensor |-> FALSE, requires_grad |-> FALSE, val |-> n]

\* _training_step(sample, batch_idx, optimizer_idx) on the model's output
training_step(s, raw) ==
    LET r == run_model_train(s, raw)
    IN [total_loss |-> TotalLoss(r.losses),
        loss_output |-> ("batch_size" :> Scalar(s.txt_tokens.rows)) @@ r.losses,
        losses |-> r.losses,
        model_out |-> DetachAll(r.output)]

\* faulty variant: the schedule is stepped with the raw step count
SchedStep_raw(gs, k) == gs

\* self.global_step // hparams['accumulate_grad_batches']
SchedStep(gs, k) == gs \div k

\* the external vocoder: an injective function of the spectrogram
Spec2Wav(mel) == <<"wav", mel>>

\* save_valid_result(sample, batch_idx, model_out): the calls it makes
save_valid_result(s, mo, gs, hp) ==
    <<"plot_mel">>
    \o (IF gs > 0 THEN <<"spec2wav", "add_audio_wav_val">> ELSE <<>>)
    \o (IF gs <= hp.valid_infer_interval THEN <<"spec2wav", "add_audio_wav_gt">> ELSE <<>>)
    \o (IF gs > 0 /\ hp.dur_level = "word" /\ "attn" \in DOMAIN mo
        THEN <<"add_figure_attn">> ELSE <<>>)

\* the batches and model outputs _training_step is applied to
TrainBatches ==
    {Batch(b, ConstMel(MaxVal), m, OptionalKeys, <<"a">>, NoText) :
        b \in 1..MaxBatch, m \in Masks}

TrainOutputs ==
    {TrainOut(ConstMel(d), gd, ConstMel(p), gp, {}) :
        d \in Vals, p \in Vals, gd \in BOOLEAN, gp \in BOOLEAN}

\* the batches and model outputs of the training loop
LoopBatches == {Batch(1, ConstMel(MaxVal), PrefixMask(1), OptionalKeys, <<"a">>, NoText)}

LoopOutputs ==
    {TrainOut(ConstMel(0), gd, ConstMel(0), gp, {}) : gd \in BOOLEAN, gp \in BOOLEAN}

InitTrain ==
    /\ InitCommon
    /\ \E k \in 1..MaxAccum, lvl \in {"word", "ph"} :
          hparams = HParams(k, lvl, ValidInferInterval, FALSE, FALSE)
    /\ \E a \in BOOLEAN : scheduler = [attached |-> a, last_step |-> 0, calls |-> 0]
    /\ pc = "train"
    /\ sample = NoSample

TrainingStep(batches, outputs) ==
    /\ pc = "train"
    /\ \E s \in batches, raw \in outputs :
          LET r == training_step(s, raw)
          IN /\ sample' = s
             /\ model_out' = r.model_out
             /\ ret' = [op |-> "_training_step", err |-> "none", calls |-> <<"model">>,
                        raw |-> raw, losses |-> r.losses,
                        total_loss |-> r.total_loss, loss_output |-> r.loss_output]
    /\ pc' = "optimize"
    /\ UNCHANGED <<hparams, scheduler, global_step, saving_result_pool, attn_files,
                   test_outputs>>

OnAfterOptimization ==
    /\ pc = "optimize"
    /\ scheduler' =
          IF scheduler.attached
          THEN [scheduler EXCEPT
                   !.last_step = SchedStep(global_step, hparams.accumulate_grad_batches),
                   !.calls = @ + 1]
          ELSE scheduler
    /\ ret' = [op |-> "on_after_optimization", err |-> "none", calls |-> <<>>]
    /\ pc' = "advance"
    /\ UNCHANGED <<hparams, global_step, sample, model_out, saving_result_pool,
                   attn_files, test_outputs>>

\* the outer loop: global_step += 1 after each raw optimizer call
TrainerAdvance ==
    /\ pc = "advance"
    /\ global_step < MaxGlobalStep
    /\ global_step' = global_step + 1
    /\ pc' = "train"
    /\ ret' = NoRet
    /\ UNCHANGED <<hparams, scheduler, sample, model_out, saving_result_pool,
                   attn_files, test_outputs>>

\* validation: run_model(infer=True), then save_valid_result on its output
ValidStep ==
    /\ pc = "train"
    /\ \E x \in {{}, {"attn", "dur"}} :
          LET s == Batch(1, ConstMel(MaxVal), PrefixMask(1), {}, <<"a">>, NoText)
              mo == run_model_infer(s, InferOut(ConstMel(0), x))
          IN /\ sample' = s
             /\ model_out' = mo
             /\ ret' = [op |-> "save_valid_result", err |-> "none",
                        calls |-> <<"model">> \o save_valid_result(s, mo, global_step, hparams)]
    /\ UNCHANGED <<hparams, scheduler, global_step, pc, saving_result_pool, attn_files,
                   test_outputs>>

NextTrain ==
    \/ TrainingStep(LoopBatches, LoopOutputs)
    \/ OnAfterOptimization
    \/ TrainerAdvance
    \/ ValidStep

SpecTrain == InitTrain /\ [][NextTrain]_vars

(***************************************************************************)
(* SpecAgg: _training_step applied once to every batch and model output.   *)
(***************************************************************************)
InitAgg ==
    /\ InitCommon
    /\ hparams = HParams(1, "ph", ValidInferInterval, FALSE, FALSE)
    /\ scheduler = [attached |-> TRUE, last_step |-> 0, calls |-> 0]
    /\ pc = "train"
    /\ sample = NoSample

NextAgg == TrainingStep(TrainBatches, TrainOutputs)

SpecAgg == InitAgg /\ [][NextAgg]_vars

(***************************************************************************)
(* Properties of _training_step (SpecAgg).                                 *)
(***************************************************************************)
\* the contribution the record entry k should make to the total
Contribution(lo, k) == IF lo[k].is_tensor /\ lo[k].requires_grad THEN lo[k].val ELSE 0
\* the entries of the record that carry gradient
GradKeys(lo) == {k \in DOMAIN lo : lo[k].is_tensor /\ lo[k].requires_grad}

\* C3: the total loss _training_step returns is the sum, with weight 1, of the
\* loss-record entries that are tensors requiring gradient; every other entry
\* adds nothing to it but stays in the returned record, which also holds
\* 'batch_size', the row count of the text-token tensor.
C3_TotalIsSumOfGradEntries ==
    ret.op = "_training_step" =>
        LET lo == ret.loss_output
        IN /\ DOMAIN lo = {"mel_decoder", "mel_postnet", "batch_size"}
           /\ lo["mel_decoder"].requires_grad = ret.raw.mel_out_decoder.requires_grad
           /\ lo["mel_postnet"].requires_grad = ret.raw.mel_out_postnet.requires_grad
           /\ ret.total_loss.val =
                 Contribution(lo, "mel_decoder") + Contribution(lo, "mel_postnet")
           /\ \A k \in DOMAIN ret.losses : lo[k] = ret.losses[k]
           /\ lo["batch_size"] = Scalar(sample.txt_tokens.rows)

\* a step whose decoder loss carries gradient and whose postnet loss does not,
\* both non-zero, on a batch of more than one row
C3_Witness ==
    /\ ret.op = "_training_step"
    /\ ret.loss_output["mel_decoder"].requires_grad
    /\ ~ret.loss_output["mel_postnet"].requires_grad
    /\ ret.loss_output["mel_decoder"].val > 0
    /\ ret.loss_output["mel_postnet"].val > 0
    /\ ret.total_loss.val = ret.loss_output["mel_decoder"].val
    /\ sample.txt_tokens.rows > 1

\* C4: when the loss record holds no tensor that requires gradient,
\* _training_step raises a fatal error instead of returning a total of zero.
C4_FatalWithoutGradTerm ==
    (ret.op = "_training_step" /\ GradKeys(ret.loss_output) = {}) => ret.err # "none"

(***************************************************************************)
(* Properties of on_after_optimization (SpecTrain).                        *)
(***************************************************************************)
\* C9: with accumulation factor k and global_step growing by one per raw
\* optimizer call, on_after_optimization hands global_step // k to the
\* attached schedule, so the handed value advances (by one) exactly on the
\* calls where global_step is a positive multiple of k, i.e. once per k
\* calls; without a scheduler the hook changes nothing.
C9_ScheduleStepsPerAccumulation ==
    [][(pc = "optimize" /\ pc' = "advance") =>
          LET k == hparams.accumulate_grad_batches
          IN IF scheduler.attached
             THEN /\ scheduler'.calls = scheduler.calls + 1
                  /\ scheduler'.calls = global_step + 1
                  /\ k * scheduler'.last_step <= global_step
                  /\ global_step < k * (scheduler'.last_step + 1)
                  /\ scheduler'.last_step =
                        scheduler.last_step
                          + (IF global_step > 0 /\ global_step % k = 0 THEN 1 ELSE 0)
             ELSE scheduler' = scheduler]_vars

\* an attached schedule under a factor above one, advanced for the second time
C9_Witness ==
    /\ scheduler.attached
    /\ hparams.accumulate_grad_batches > 1
    /\ pc = "advance"
    /\ scheduler.last_step = 2
    /\ global_step = 2 * hparams.accumulate_grad_batches

(***************************************************************************)
(* Python string operations used by test_step.                             *)
(***************************************************************************)
\* the first index >= i of s that holds ch, or 0
Find(s, ch, i) ==
    LET ps == {j \in i..Len(s) : s[j] = ch}
    IN IF ps = {} THEN 0 ELSE CHOOSE j \in ps : \A k \in ps : j <= k

\* s.replace(ch, rep) for a one-character ch: every occurrence, left to right
RECURSIVE Replace(_, _, _)
Replace(s, ch, rep) ==
    LET j == Find(s, ch, 1)
    IN IF j = 0 THEN s
       ELSE SubSeq(s, 1, j - 1) \o rep \o Replace(SubSeq(s, j + 1, Len(s)), ch, rep)

\* s[:n]
Take(s, n) == SubSeq(s, 1, IF Len(s) < n THEN Len(s) ELSE n)

DigitChars == <<"0", "1", "2", "3", "4", "5", "6", "7", "8", "9">>
RECURSIVE Digits(_)
Digits(n) ==
    IF n < 10 THEN <<DigitChars[n + 1]>>
    ELSE Digits(n \div 10) \o <<DigitChars[(n % 10) + 1]>>

\* the width of {batch_idx:06d} and the cut of text[:80]
IdxWidth == 6
TextCut == 80

\* f'{n:06d}' for n >= 0: the decimal digits, zero-padded to six places
Pad06d(n) ==
    LET d == Digits(n)
    IN IF Len(d) >= IdxWidth THEN d ELSE [i \in 1..(IdxWidth - Len(d)) |-> "0"] \o d

\* fmt % arg for a str arg: '%s' takes the argument, '%%' is a literal '%';
\* a '%' at the end, a second conversion (no argument is left for it) and an
\* argument left over all raise.  Every '%' test_step can put before the first
\* '%s' is removed from the item name, so no other conversion meets an
\* unconsumed argument.
RECURSIVE Fmt(_, _, _, _, _)
Fmt(fmt, arg, i, left, acc) ==
    LET j == Find(fmt, "%", i)
    IN IF j = 0 THEN [ok |-> ~left, s |-> acc \o SubSeq(fmt, i, Len(fmt))]
       ELSE LET lit == acc \o SubSeq(fmt, i, j - 1)
            IN IF j = Len(fmt) THEN [ok |-> FALSE, s |-> lit]
               ELSE IF fmt[j + 1] = "%" THEN Fmt(fmt, arg, j + 2, left, lit \o <<"%">>)
               ELSE IF fmt[j + 1] = "s" /\ left THEN Fmt(fmt, arg, j + 2, FALSE, lit \o arg)
               ELSE [ok |-> FALSE, s |-> lit]
PyFormat(fmt, arg) == Fmt(fmt, arg, 1, TRUE, <<>>)

\* faulty variant: the batch index left out of the stem
BaseFn_noidx(batch_idx, item_name, text) ==
    LET b0 == <<"[">> \o Replace(item_name, "%", <<"_">>) \o <<"]", "[", "%", "s", "]">>
        b1 == IF ~text.is_none
              THEN b0 \o Take(Replace(text.chars, ":", <<"$", "3", "A">>), TextCut)
              ELSE b0
    IN Replace(b1, " ", <<"_">>)

\* base_fn: f'[{batch_idx:06d}][{item_name.replace("%", "_")}][%s]', then the
\* text with ':' replaced, cut to 80 characters, then spaces replaced
BaseFn(batch_idx, item_name, text) ==
    LET b0 == <<"[">> \o Pad06d(batch_idx) \o <<"]", "[">>
                 \o Replace(item_name, "%", <<"_">>) \o <<"]", "[", "%", "s", "]">>
        b1 == IF ~text.is_none
              THEN b0 \o Take(Replace(text.chars, ":", <<"$", "3", "A">>), TextCut)
              ELSE b0
    IN Replace(b1, " ", <<"_">>)

(***************************************************************************)
(* test_start and test_step.                                               *)
(***************************************************************************)
\* one InferenceJob: the arguments of save_result
Job(wav, mel, base_fn, mel2ph) ==
    [wav |-> wav, mel |-> mel, base_fn |-> base_fn, gen_dir |-> "gen_dir",
     str_phs |-> "str_phs", mel2ph |-> mel2ph]

\* faulty variant: the precondition is not checked
test_step_assert_off(s) == TRUE

\* assert sample['txt_tokens'].shape[0] == 1
test_step_assert(s) == s.txt_tokens.rows = 1

\* faulty variant: the ground-truth job is submitted whatever save_gt says
test_step_jobs_always_gt(hp, s, mel_pred, fn_pred, fn_gt) ==
    <<Job(Spec2Wav(mel_pred), mel_pred, fn_pred, <<>>),
      Job(Spec2Wav(s.mels.data), s.mels.data, fn_gt, s.mel2ph)>>

\* the jobs test_step hands to saving_result_pool.add_job, in order
test_step_jobs(hp, s, mel_pred, fn_pred, fn_gt) ==
    <<Job(Spec2Wav(mel_pred), mel_pred, fn_pred, <<>>)>>
    \o (IF hp.save_gt
        THEN <<Job(Spec2Wav(s.mels.data), s.mels.data, fn_gt, s.mel2ph)>>
        ELSE <<>>)

\* the calls to the vocoder and the pool that go with the jobs
JobCalls(jobs) == [i \in 1..(2 * Len(jobs)) |-> IF i % 2 = 1 THEN "spec2wav" ELSE "add_job"]

\* test_step(sample, batch_idx) on the model's output: the exception raised
\* ("none" if it returns), the calls made, the pool and the attention files
\* afterwards, the model output and the returned record
test_step(s, batch_idx, raw, hp, pool, files) ==
    IF ~test_step_assert(s)
    THEN [err |-> "AssertionError", calls |-> <<>>, pool |-> pool, files |-> files,
          outputs |-> NoOut, out |-> <<>>]
    ELSE
    LET outputs == run_model_infer(s, raw)
        mel_pred == outputs.mel_out.data
        base_fn == BaseFn(batch_idx, s.item_name, s.text)
        fP == PyFormat(base_fn, <<"P">>)
        fG == PyFormat(base_fn, <<"G">>)
        jobs == test_step_jobs(hp, s, mel_pred, fP.s, fG.s)
        pool2 == pool \o jobs
        out == [item_name |-> s.item_name, text |-> s.text, ph_tokens |-> "str_phs",
                wav_fn_pred |-> fP.s, wav_fn_gt |-> fG.s]
    IN IF ~fP.ok
       THEN \* base_fn % 'P' raises: the vocoder has run, add_job has not
            [err |-> "FormatError", calls |-> <<"model", "decode", "spec2wav">>,
             pool |-> pool, files |-> files, outputs |-> outputs, out |-> <<>>]
       ELSE IF hp.save_attn /\ "attn" \notin DOMAIN outputs
       THEN \* outputs['attn'] raises, after the jobs were submitted
            [err |-> "KeyError", calls |-> <<"model", "decode">> \o JobCalls(jobs),
             pool |-> pool2, files |-> files, outputs |-> outputs, out |-> <<>>]
       ELSE [err |-> "none",
             calls |-> <<"model", "decode">> \o JobCalls(jobs)
                          \o (IF hp.save_attn THEN <<"np_save">> ELSE <<>>)
                          \o <<"decode">>,
             pool |-> pool2,
             files |-> IF hp.save_attn THEN files \cup {s.item_name} ELSE files,
             outputs |-> outputs, out |-> out]

\* item names and raw texts of the test set
ItemNames == {<<"a", "%">>, <<"b", ":", " ">>}
LongText == <<"h", " ", ":">> \o [i \in 1..74 |-> "a"] \o <<":", "b">>
Texts == {NoText, Text(LongText), Text(<<"%", "%">>), Text(<<"5", "%">>)}
BatchIdxs == {7, 1000000}

TestBatches ==
    {Batch(1, ConstMel(MaxVal), PrefixMask(1), {}, n, t) : n \in ItemNames, t \in Texts}
    \cup {Batch(b, ConstMel(MaxVal), PrefixMask(1), {}, <<"a", "%">>, NoText) :
             b \in 2..MaxBatch}

InitTest ==
    /\ InitCommon
    /\ \E gt \in BOOLEAN, attn \in BOOLEAN :
          hparams = HParams(1, "ph", ValidInferInterval, gt, attn)
    /\ scheduler = [attached |-> FALSE, last_step |-> 0, calls |-> 0]
    /\ pc = "test_start"
    /\ sample = NoSample

TestStart ==
    /\ pc = "test_start"
    /\ pc' = "test"
    /\ ret' = [op |-> "test_start", err |-> "none",
               calls |-> (IF hparams.save_attn THEN <<"makedirs">> ELSE <<>>)
                            \o <<"store_inverse_all">>]
    /\ UNCHANGED <<hparams, scheduler, global_step, sample, model_out,
                   saving_result_pool, attn_files, test_outputs>>

\* one step of the test loop; an exception ends the loop
TestStep ==
    /\ pc = "test"
    /\ ret.err = "none"
    /\ Len(test_outputs) < MaxTestSteps
    /\ \E s \in TestBatches, batch_idx \in BatchIdxs,
          x \in (IF hparams.save_attn THEN {{}, {"attn"}} ELSE {{}}) :
          LET r == test_step(s, batch_idx, InferOut(ConstMel(0), x), hparams,
                             saving_result_pool, attn_files)
          IN /\ sample' = s
             /\ model_out' = IF r.err = "AssertionError" THEN model_out ELSE r.outputs
             /\ saving_result_pool' = r.pool
             /\ attn_files' = r.files
             /\ ret' = [op |-> "test_step", err |-> r.err, calls |-> r.calls,
                        batch_idx |-> batch_idx]
             /\ test_outputs' =
                   IF r.err = "none"
                   THEN Append(test_outputs, ("batch_idx" :> batch_idx) @@ r.out)
                   ELSE test_outputs
    /\ UNCHANGED <<hparams, scheduler, global_step, pc>>

NextTest == TestStart \/ TestStep

(***************************************************************************)
(* Spec: a run of A3TTask, training (with validation) or inference.        *)
(***************************************************************************)
Init == InitTrain \/ InitTest

Next == NextTrain \/ NextTest

Spec == Init /\ [][Next]_vars

(***************************************************************************)
(* Properties of test_step (Spec).                                         *)
(***************************************************************************)
JobsPerStep == IF hparams.save_gt THEN 2 ELSE 1
\* the stem carries the tag in brackets
HasTag(fn, tag) ==
    \E i \in 1..(Len(fn) - 2) : fn[i] = "[" /\ fn[i + 1] = tag /\ fn[i + 2] = "]"
\* the stem holds none of '%', ':' and ' '
Clean(fn) == \A i \in 1..Len(fn) : fn[i] \notin {"%", ":", " "}
LastOutput == test_outputs[Len(test_outputs)]

\* C5: a test step on a batch whose text-token tensor has a row count other
\* than 1 fails with an assertion error having called neither the model nor
\* the vocoder, and leaves the pool, the files and the collected outputs as
\* they were.
C5_AssertBeforeAnyEffect ==
    [][(pc = "test" /\ ret'.op = "test_step" /\ sample'.txt_tokens.rows # 1) =>
          /\ ret'.err = "AssertionError"
          /\ ret'.calls = <<>>
          /\ UNCHANGED <<saving_result_pool, attn_files, test_outputs, model_out,
                         hparams, scheduler, global_step>>]_vars

\* a failed step on a two-row batch after a step that submitted jobs
C5_Witness ==
    /\ ret.op = "test_step"
    /\ sample.txt_tokens.rows = 2
    /\ ret.err = "AssertionError"
    /\ Len(saving_result_pool) > 0
    /\ Len(test_outputs) = 1

\* C6: a successful test step appends to the pool one job for the predicted
\* result (stem tagged 'P', waveform of the composited spectrogram) and, iff
\* save_gt is set, one for the ground truth (stem tagged 'G'); after n
\* successful steps the pool holds n jobs, or 2n with save_gt; no other step
\* (training, validation, optimizer hook) changes the pool.
C6_JobsPerTestStep ==
    [][/\ saving_result_pool' # saving_result_pool => (pc = "test" /\ ret'.op = "test_step")
       /\ ret'.err = "none" => Len(saving_result_pool') = Len(test_outputs') * JobsPerStep
       /\ (pc = "test" /\ ret'.op = "test_step" /\ ret'.err = "none"
              /\ Len(test_outputs') = Len(test_outputs) + 1) =>
             LET n == Len(saving_result_pool)
                 new == SubSeq(saving_result_pool', n + 1, Len(saving_result_pool'))
                 o == test_outputs'[Len(test_outputs')]
             IN /\ saving_result_pool' = saving_result_pool \o new
                /\ Len(new) = JobsPerStep
                /\ new[1].base_fn = o.wav_fn_pred
                /\ HasTag(new[1].base_fn, "P")
                /\ new[1].mel = model_out'.mel_out.data
                /\ new[1].wav = Spec2Wav(model_out'.mel_out.data)
                /\ hparams.save_gt =>
                      /\ new[2].base_fn = o.wav_fn_gt
                      /\ HasTag(new[2].base_fn, "G")
                      /\ new[2].wav = Spec2Wav(sample'.mels.data)]_vars

\* two successful steps with save_gt set: four jobs
C6_Witness ==
    /\ pc = "test"
    /\ hparams.save_gt
    /\ ret.err = "none"
    /\ Len(test_outputs) = 2
    /\ Len(saving_result_pool) = 4

\* the batch indices of the steps that submitted jobs: the successful ones,
\* and a last one that raised after submitting
StepIdxs ==
    [i \in 1..Len(test_outputs) |-> test_outputs[i].batch_idx]
    \o (IF ret.op = "test_step" /\ ret.err = "KeyError" THEN <<ret.batch_idx>> ELSE <<>>)
Distinct(q) == \A i \in DOMAIN q : \A j \in DOMAIN q : i # j => q[i] # q[j]

\* C7: steps with distinct batch indices build distinct stems, whatever the
\* item names and texts; within a step the 'P' stem differs from the 'G'
\* stem; so when the batch indices are pairwise distinct no two jobs of the
\* pool share a stem.
C7_StemsDistinct ==
    /\ \A i \in DOMAIN test_outputs : \A j \in DOMAIN test_outputs :
          test_outputs[i].batch_idx # test_outputs[j].batch_idx =>
             {test_outputs[i].wav_fn_pred, test_outputs[i].wav_fn_gt}
                \cap {test_outputs[j].wav_fn_pred, test_outputs[j].wav_fn_gt} = {}
    /\ \A i \in DOMAIN test_outputs :
          test_outputs[i].wav_fn_pred # test_outputs[i].wav_fn_gt
    /\ Distinct(StepIdxs) =>
          Distinct([a \in DOMAIN saving_result_pool |-> saving_result_pool[a].base_fn])

\* two steps on the same item name and text under different batch indices,
\* with save_gt set
C7_Witness ==
    /\ Len(test_outputs) = 2
    /\ test_outputs[1].batch_idx # test_outputs[2].batch_idx
    /\ test_outputs[1].item_name = test_outputs[2].item_name
    /\ test_outputs[1].text = test_outputs[2].text
    /\ ~test_outputs[1].text.is_none
    /\ Len(saving_result_pool) = 4

\* C8: for every item name and raw text, '%', ':' and spaces included,
\* test_step builds the 'P' and 'G' stems without raising, and the stems hold
\* no '%', no ':' and no space.
C8_StemsSanitized ==
    (ret.op = "test_step" /\ sample.txt_tokens.rows = 1) =>
        /\ ret.err # "FormatError"
        /\ ret.err = "none" =>
              (Clean(LastOutput.wav_fn_pred) /\ Clean(LastOutput.wav_fn_gt))

\* C10: a sample without pitch, speaker embedding and speaker id and a model
\* output without attention map and durations never make run_model,
\* save_valid_result or test_step (save_attn included) raise.
C10_MissingOptionalNeverRaises ==
    (/\ ret.op \in {"save_valid_result", "test_step"}
     /\ DOMAIN sample \cap OptionalKeys = {}
     /\ DOMAIN model_out \cap {"attn", "dur"} = {}
     /\ sample.txt_tokens.rows = 1
     /\ sample.text.is_none)
       => ret.err = "none"

====
